---- MODULE Spec2Model ----
(***************************************************************************)
(* Sales transaction processing of the retail management system:          *)
(* SalesTransactionCreateSerializer.create (sales/serializers.py) over    *)
(* the tables of sales/models.py and inventory/models.py.                 *)
(*                                                                         *)
(* Units.  Money is counted in hundredths (the two decimal places of the   *)
(* DecimalFields); requested quantities are decimals and are counted in   *)
(* 1/QScale of a unit; an unrounded running amount (price x quantity, with *)
(* the 10% reduction) is counted in 1/Fine of a hundredth.  Batch          *)
(* quantities are integers (PositiveIntegerField).                        *)
(***************************************************************************)
EXTENDS Integers, Sequences, FiniteSets, TLC

\* ---- bounds of the model ------------------------------------------------
MaxBatches == 2        \* batches that may be created
MaxBatchQty == 2       \* largest quantity of a created batch
MaxDay == 2            \* days the clock runs over; expiry dates are 1..MaxDay
MaxLines == 2          \* cart lines of a request
MaxQty == 3            \* largest requested quantity, in 1/QScale units
MaxTx == 2             \* create_sale calls in a behaviour
MaxShifts == 2         \* CashierShift rows of the cashier
MaxLosses == 2         \* LossLog rows

\* quantity = serializers.DecimalField(..., decimal_places=2): fractional
\* quantities; the model resolves them to halves.
QScale == 2
\* unrounded amounts: hundredths x QScale x 10 (the factor 0.90 / 0.10)
Fine == QScale * 10

Products == {1, 2}
NoDate == 0
NoCode == 0
NoPhone == 0
Phones == {1}
\* amount_received offered with a cash payment, in hundredths
CashTendered == 15

\* Product.selling_price / Product.cost_price, in hundredths
selling_price == [p \in Products |-> IF p = 1 THEN 15 ELSE 10]
cost_price == [p \in Products |-> 10]
\* LoyaltySettings.spending_target, in hundredths
spending_target == 20

VARIABLES
    today,          \* date.today() / now().date()
    nullsLargest,   \* whether the database sorts NULL expiry dates as largest
    active,         \* Product.is_active
    batches,        \* ProductBatch rows, by id
    shifts,         \* CashierShift rows of the cashier: is_closed, end_time
    codes,          \* DiscountCode rows, by id: is_active, type
    loyalty,        \* CustomerLoyalty rows, by phone number
    sales,          \* SalesTransaction rows, by id
    items,          \* SalesItem rows
    logs,           \* SaleLog rows
    losses,         \* LossLog rows, by id
    last,           \* the last create_sale call: request, outcome, response
    proc            \* the create_sale calls in flight on concurrent workers

vars == <<today, nullsLargest, active, batches, shifts, codes, loyalty,
          sales, items, logs, losses, last, proc>>

Min(a, b) == IF a <= b THEN a ELSE b
Abs(a) == IF a >= 0 THEN a ELSE -a

\* Decimal.quantize(..., rounding=ROUND_HALF_UP): n/d rounded to an integer,
\* ties away from zero
round_decimal(n, d) ==
    IF n >= 0 THEN (2 * n + d) \div (2 * d) ELSE -((2 * (-n) + d) \div (2 * d))

\* IntegerField.to_python on a Decimal: int(value), truncation toward zero
\* (h is a quantity in 1/QScale units)
to_python(h) == IF h >= 0 THEN h \div QScale ELSE -((-h) \div QScale)

\* ---- ProductBatch ---------------------------------------------------------
Expired(b, day) == b.expiry_date # NoDate /\ b.expiry_date < day

\* ProductBatch.clean: TRUE when the batch validates
BatchClean(b, day) ==
    /\ b.quantity >= 0
    /\ ~(Expired(b, day) /\ ~b.is_expired_handled)

\* order_by('expiry_date', 'id') key of batch i; NULL dates sort first or last
\* as the database decides
OrderKey(bs, i, nl) ==
    (IF bs[i].expiry_date = NoDate THEN (IF nl THEN MaxDay + 1 ELSE 0)
     ELSE bs[i].expiry_date) * (Len(bs) + 1) + i

RECURSIVE Ascending(_, _, _)
Ascending(S, bs, nl) ==
    IF S = {} THEN <<>>
    ELSE LET m == CHOOSE x \in S : \A y \in S : OrderKey(bs, x, nl) <= OrderKey(bs, y, nl)
         IN  <<m>> \o Ascending(S \ {m}, bs, nl)

\* ProductBatch.objects.filter(product=product, quantity__gt=0).order_by('expiry_date', 'id')
FifoBatches(bs, p, nl) ==
    Ascending({i \in DOMAIN bs : bs[i].product = p /\ bs[i].quantity > 0}, bs, nl)

\* the first batch of the ascending order instead
RefundBatchOldest(bs, p, nl) ==
    LET S == {i \in DOMAIN bs : bs[i].product = p}
    IN  IF S = {} THEN 0
        ELSE CHOOSE x \in S : \A y \in S : OrderKey(bs, x, nl) <= OrderKey(bs, y, nl)

\* ProductBatch.objects.filter(product=product).order_by('-expiry_date', '-id').first()
\* (0 when the product has no batch)
RefundBatch(bs, p, nl) ==
    LET S == {i \in DOMAIN bs : bs[i].product = p}
    IN  IF S = {} THEN 0
        ELSE CHOOSE x \in S : \A y \in S : OrderKey(bs, x, nl) >= OrderKey(bs, y, nl)

\* Product.quantity: the sum of the product's batch quantities
RECURSIVE SumQty(_, _)
SumQty(bs, S) ==
    IF S = {} THEN 0
    ELSE LET i == CHOOSE x \in S : TRUE IN bs[i].quantity + SumQty(bs, S \ {i})
OnHand(bs, p) == SumQty(bs, {i \in DOMAIN bs : bs[i].product = p})


\* ---- SalesTransactionCreateSerializer.create --------------------------------
\* The working state of one call inside db_transaction.atomic(): the rows it
\* has written so far and its local variables.
\* the same working state with discount_applied left at False
NewCtxUndiscounted(db, discount_applied) ==
    [batches |-> db.batches, items |-> db.items, logs |-> db.logs,
     sale_items |-> <<>>, warnings |-> <<>>, total_amount |-> 0,
     total_profit |-> 0, discount_applied |-> FALSE, err |-> ""]

NewCtx(db, discount_applied) ==
    [batches |-> db.batches, items |-> db.items, logs |-> db.logs,
     sale_items |-> <<>>, warnings |-> <<>>, total_amount |-> 0,
     total_profit |-> 0, discount_applied |-> discount_applied, err |-> ""]

\* the same row with the quantity unsigned
SaleLogUnsigned(p, b, q, action, tx) ==
    [product |-> p, batch |-> b, quantity |-> Abs(q), action |-> action,
     transaction |-> tx]

\* SaleLog.objects.create(product, batch, quantity, action, transaction, ...)
SaleLogRow(p, b, q, action, tx) ==
    [product |-> p, batch |-> b, quantity |-> q, action |-> action,
     transaction |-> tx]

\* refund branch of the item loop (line n of the cart, transaction tx)
RefundLine(ctx, line, n, tx, nl, day) ==
    LET p == line.product
        b == RefundBatch(ctx.batches, p, nl)
    IN  IF b = 0 THEN [ctx EXCEPT !.err = "NoBatchAvailable"]
        ELSE
        LET deduct_qty == -line.quantity
            unit_price == selling_price[p]
            profit == round_decimal((unit_price - cost_price[p]) * deduct_qty, QScale)
            \* batch.quantity += abs(deduct_qty); batch.save() -> full_clean()
            saved == [ctx.batches[b] EXCEPT
                         !.quantity = to_python(@ * QScale + Abs(deduct_qty))]
        IN  IF ~BatchClean(saved, day) THEN [ctx EXCEPT !.err = "BatchValidation"]
            ELSE [ctx EXCEPT
                    !.logs = Append(@, SaleLogRow(p, b, deduct_qty, "refund", tx)),
                    !.batches[b] = saved,
                    !.items = Append(@, [transaction |-> tx, product |-> p, batch |-> b,
                                         quantity |-> deduct_qty, unit_price |-> unit_price,
                                         cost_price |-> cost_price[p], profit |-> profit]),
                    !.sale_items = Append(@, [line |-> n, product |-> p, batch_id |-> b,
                                              quantity |-> deduct_qty,
                                              unit_price |-> unit_price]),
                    !.total_amount = @ + unit_price * deduct_qty * 10,
                    !.total_profit = @ + profit]

\* the batch loop of the sale branch: `order` is the evaluated queryset, i the
\* position in it, quantity_needed what the line still needs
RECURSIVE Allocate(_, _, _, _, _, _, _, _)
Allocate(ctx, order, i, quantity_needed, p, n, tx, day) ==
    IF i > Len(order) \/ quantity_needed <= 0
    THEN IF quantity_needed > 0 THEN [ctx EXCEPT !.err = "InsufficientStock"] ELSE ctx
    ELSE
    LET b == order[i]
        batch == ctx.batches[b]
        warned == IF Expired(batch, day) THEN Append(ctx.warnings, b) ELSE ctx.warnings
        deduct_qty == Min(batch.quantity * QScale, Abs(quantity_needed))
        original_price == selling_price[p]
        discounted_price == IF ctx.discount_applied
                            THEN round_decimal(original_price * 90, 100)
                            ELSE original_price
        profit == round_decimal((discounted_price - cost_price[p]) * deduct_qty, QScale)
        \* batch.quantity -= abs(deduct_qty); batch.save() -> full_clean()
        saved == [batch EXCEPT !.quantity = to_python(@ * QScale - Abs(deduct_qty))]
    IN  IF ~BatchClean(saved, day) THEN [ctx EXCEPT !.err = "BatchValidation"]
        ELSE Allocate(
               [ctx EXCEPT
                  !.warnings = warned,
                  !.items = Append(@, [transaction |-> tx, product |-> p, batch |-> b,
                                       quantity |-> deduct_qty,
                                       unit_price |-> discounted_price,
                                       cost_price |-> cost_price[p], profit |-> profit]),
                  !.batches[b] = saved,
                  !.logs = Append(@, SaleLogRow(p, b, deduct_qty, "sold", tx)),
                  !.sale_items = Append(@, [line |-> n, product |-> p, batch_id |-> b,
                                            quantity |-> deduct_qty,
                                            unit_price |-> discounted_price]),
                  !.total_amount = @ + discounted_price * deduct_qty * 10,
                  !.total_profit = @ + profit],
               order, i + 1, quantity_needed - Abs(deduct_qty), p, n, tx, day)

\* sale branch of the item loop
SaleLine(ctx, line, n, tx, nl, day) ==
    Allocate(ctx, FifoBatches(ctx.batches, line.product, nl), 1, line.quantity,
             line.product, n, tx, day)

\* the same lookup without is_active=True
ProductExists(act, p) == p \in DOMAIN act

\* Product.objects.get(id=item['product_id'], is_active=True) finds a row
ProductFound(act, p) == p \in DOMAIN act /\ act[p]

\* for item in items_data: ...
RECURSIVE ProcessItems(_, _, _, _, _, _, _, _)
ProcessItems(ctx, items_data, n, is_refund, act, tx, nl, day) ==
    IF ctx.err # "" \/ n > Len(items_data) THEN ctx
    ELSE LET line == items_data[n]
         IN  IF ~ProductFound(act, line.product)
             THEN [ctx EXCEPT !.err = "ProductNotFound"]
             ELSE ProcessItems(IF is_refund THEN RefundLine(ctx, line, n, tx, nl, day)
                                            ELSE SaleLine(ctx, line, n, tx, nl, day),
                               items_data, n + 1, is_refund, act, tx, nl, day)


\* the lookup below without is_closed=False
AnyShift(sh) == sh # <<>>

\* CashierShift.objects.filter(cashier=cashier, is_closed=False).exists()
HasOpenShift(sh) == \E i \in DOMAIN sh : ~sh[i].is_closed

\* the same lookup without is_active=True
CodeExists(cs, code) == code \in DOMAIN cs

\* DiscountCode.objects.get(code=discount_code_str, is_active=True) finds a row
CodeValid(cs, code) == code \in DOMAIN cs /\ cs[code].is_active

\* quantize to two places under the default decimal context (ROUND_HALF_EVEN),
\* as a DecimalField value is written to its column
format_number(n, d) ==
    LET q == n \div d
        r == n % d
    IN  IF 2 * r < d THEN q
        ELSE IF 2 * r > d THEN q + 1
        ELSE IF q % 2 = 0 THEN q ELSE q + 1

\* what generate_receipt_pdf was handed: nothing when it was not reached, else
\* the transaction row and the DiscountCode and CustomerLoyalty rows as they
\* were when it was called
NotPrinted == [invoked |-> FALSE]
Printed(db, tx) ==
    [invoked |-> TRUE, sale |-> db.sales[tx], codes |-> db.codes,
     loyalty |-> db.loyalty]

\* an error raised before the atomic block: nothing was written
Reject(db, err) ==
    [outcome |-> err, db |-> db, sale_items |-> <<>>, warnings |-> <<>>,
     transaction_id |-> 0, change_due |-> 0, loyalty_discount_code |-> NoCode,
     printed |-> NotPrinted]

\* the same exception without the atomic block: what was written stays
AbortNoRollback(db, written, err) ==
    [outcome |-> err, db |-> written, sale_items |-> <<>>, warnings |-> <<>>,
     transaction_id |-> 0, change_due |-> 0, loyalty_discount_code |-> NoCode,
     printed |-> NotPrinted]

\* an exception inside `with db_transaction.atomic()`: the rows written in the
\* block (`written`) are rolled back to the rows at its start (`db`), and the
\* except clause raises ValidationError("Transaction failed: ...")
Abort(db, written, err) ==
    [outcome |-> err, db |-> db, sale_items |-> <<>>, warnings |-> <<>>,
     transaction_id |-> 0, change_due |-> 0, loyalty_discount_code |-> NoCode,
     printed |-> NotPrinted]

\* SalesTransaction.objects.create(cashier, total_amount=0, total_profit=0, ...)
OpenSale(db, req) ==
    [db EXCEPT !.sales = Append(@, [is_refund |-> req.is_refund,
                                    payment_method |-> req.payment_method,
                                    amount_received |-> req.amount_received,
                                    total_amount |-> 0, total_profit |-> 0,
                                    change_due |-> 0, discount_code |-> NoCode,
                                    loyalty_discount_code |-> NoCode,
                                    receipt |-> FALSE])]

\* the rows as the item loop left them
Written(opened, ctx) ==
    [opened EXCEPT !.batches = ctx.batches, !.items = ctx.items, !.logs = ctx.logs]

\* the loyalty step: `sale` is the saved transaction row, db the rows written
\* so far
TrackLoyalty(db, req, tx, total_amount) ==
    LET phone == req.phone_number
        row == IF phone \in DOMAIN db.loyalty THEN db.loyalty[phone]
               ELSE [total_spent |-> 0, rewards_earned |-> 0]
        \* loyalty.total_spent += total_amount: the unrounded amount
        total_spent == row.total_spent * Fine + total_amount
        stored == [row EXCEPT !.total_spent = format_number(total_spent, Fine)]
        current_milestone == total_spent \div (spending_target * Fine)
        code == Len(db.codes) + 1
    IN  IF current_milestone > row.rewards_earned
        THEN [db EXCEPT
                !.loyalty = [ph \in DOMAIN @ \cup {phone} |->
                               IF ph = phone
                               THEN [stored EXCEPT !.rewards_earned = current_milestone]
                               ELSE @[ph]],
                !.codes = Append(@, [is_active |-> TRUE, type |-> "loyalty"]),
                !.sales[tx].loyalty_discount_code = code]
        ELSE [db EXCEPT
                !.loyalty = [ph \in DOMAIN @ \cup {phone} |->
                               IF ph = phone THEN stored ELSE @[ph]]]

\* TRUE when the loyalty step of this call mints a reward code
Mints(db, req, total_amount) ==
    LET phone == req.phone_number
        row == IF phone \in DOMAIN db.loyalty THEN db.loyalty[phone]
               ELSE [total_spent |-> 0, rewards_earned |-> 0]
    IN  (row.total_spent * Fine + total_amount) \div (spending_target * Fine)
            > row.rewards_earned

\* the same test without `not is_refund`
HasPhone(req) == req.phone_number # NoPhone

\* if not is_refund and validated_data.get("phone_number")
TracksLoyalty(req) == ~req.is_refund /\ req.phone_number # NoPhone

\* the tail of create, after the item loop succeeded: `db` the rows at the
\* start of the atomic block, `written` the rows as the item loop left them
Finalize(db, written, ctx, req, tx, fault) ==
    LET \* total_amount -= total_amount * Decimal('0.10')
        total_amount == IF ctx.discount_applied
                        THEN ctx.total_amount - ctx.total_amount \div 10
                        ELSE ctx.total_amount
        cash_sale == req.payment_method = "cash" /\ ~req.is_refund
        change_due == IF cash_sale
                      THEN round_decimal(req.amount_received * Fine - total_amount, Fine)
                      ELSE 0
        \* sale.save(); discount_obj.is_active = False; discount_obj.save()
        saved == [written EXCEPT
                    !.sales[tx].total_amount = round_decimal(total_amount, Fine),
                    !.sales[tx].total_profit = ctx.total_profit,
                    !.sales[tx].change_due = change_due,
                    !.sales[tx].discount_code =
                        IF ctx.discount_applied THEN req.discount_code ELSE NoCode,
                    !.codes = IF ctx.discount_applied
                              THEN [@ EXCEPT ![req.discount_code].is_active = FALSE]
                              ELSE @]
        \* generate_receipt_pdf(sale): transaction.receipt.save(...); transaction.save()
        receipted == [saved EXCEPT !.sales[tx].receipt = TRUE]
        loyal == TracksLoyalty(req)
        final == IF loyal THEN TrackLoyalty(receipted, req, tx, total_amount)
                          ELSE receipted
    IN  IF ctx.sale_items = <<>> THEN Abort(db, written, "NoItems")
        ELSE IF cash_sale /\ req.amount_received * Fine < total_amount
        THEN Abort(db, written, "InsufficientPayment")
        ELSE IF fault = "receipt" THEN Abort(db, saved, "ReceiptFailed")
        ELSE IF loyal /\ fault = "mint" /\ Mints(receipted, req, total_amount)
        THEN Abort(db, receipted, "LoyaltyFailed")
        ELSE [outcome |-> "ok", db |-> final, sale_items |-> ctx.sale_items,
              warnings |-> ctx.warnings, transaction_id |-> tx,
              change_due |-> change_due,
              loyalty_discount_code |-> final.sales[tx].loyalty_discount_code,
              printed |-> Printed(saved, tx)]

\* SalesTransactionCreateSerializer.create(validated_data): the rows after the
\* call and the response (or the error)
create(db, sh, act, req, nl, day, fault) ==
    IF ~HasOpenShift(sh) THEN Reject(db, "ShiftRequired")
    ELSE IF req.discount_code # NoCode /\ ~CodeValid(db.codes, req.discount_code)
    THEN Abort(db, db, "InvalidDiscount")
    ELSE
    LET tx == Len(db.sales) + 1
        opened == OpenSale(db, req)
        ctx == ProcessItems(NewCtx(db, req.discount_code # NoCode), req.items, 1,
                            req.is_refund, act, tx, nl, day)
    IN  IF ctx.err # "" THEN Abort(db, Written(opened, ctx), ctx.err)
        ELSE Finalize(db, Written(opened, ctx), ctx, req, tx, fault)

\* ---- requests ---------------------------------------------------------------
\* SalesItemInputSerializer: a product reference and a quantity > 0
Lines == [product : {1}, quantity : 1..MaxQty] \cup [product : {2}, quantity : {QScale}]
Carts == UNION {[1..n -> Lines] : n \in 0..MaxLines}

\* the validated_data of SalesTransactionCreateSerializer
Request(cart, is_refund, code, phone, method) ==
    [items |-> cart, is_refund |-> is_refund, discount_code |-> code,
     phone_number |-> phone, payment_method |-> method,
     amount_received |-> CashTendered]

\* carts of any shape, paid by card
StockRequests ==
    {Request(c, r, NoCode, NoPhone, "card") : c \in Carts, r \in BOOLEAN}

\* one-line carts of product 1 with every combination of the other fields;
\* code 1 is the staff code, code 9 is no row of DiscountCode
MoneyRequests ==
    {Request(<<[product |-> 1, quantity |-> q]>>, r, c, ph, m) :
        q \in {QScale, MaxQty}, r \in BOOLEAN, c \in {NoCode, 1},
        ph \in {NoPhone} \cup Phones, m \in {"cash", "card"}}
    \cup {Request(<<[product |-> 1, quantity |-> QScale]>>, FALSE, 9, NoPhone, "card")}

Requests == StockRequests \cup MoneyRequests

\* the requests of the calls that follow a committed transaction
FollowUps ==
    {Request(<<[product |-> 1, quantity |-> QScale]>>, r, c, ph, "card") :
        r \in BOOLEAN, c \in {NoCode, 1}, ph \in {NoPhone} \cup Phones}

\* what the environment does to a call: "receipt" when generate_receipt_pdf
\* raises, "mint" when DiscountCode.objects.create raises (its random code
\* collides with the unique constraint)
Faults == {"none", "receipt", "mint"}

\* the batches ProductBatchViewSet.create is asked for
BatchInputs ==
    [product : {1}, quantity : 1..MaxBatchQty, expiry_date : {NoDate} \cup (1..MaxDay)]
    \cup [product : {2}, quantity : {MaxBatchQty}, expiry_date : {NoDate}]

\* ---- state ------------------------------------------------------------------
\* the worker processes serving requests
Procs == {1, 2}

\* a worker that serves no request, or has finished serving one with `outcome`
Rest(pc, outcome) ==
    [pc |-> pc, req |-> Request(<<>>, FALSE, NoCode, NoPhone, "card"), n |-> 0,
     ctx |-> NewCtx([batches |-> <<>>, items |-> <<>>, logs |-> <<>>], FALSE),
     writes |-> {}, seen |-> <<>>, outcome |-> outcome]

NoCall == [op |-> "none"]
Idle == last.op = "none"

DB == [batches |-> batches, codes |-> codes, loyalty |-> loyalty,
       sales |-> sales, items |-> items, logs |-> logs]

Init ==
    /\ today = 1
    /\ nullsLargest \in BOOLEAN
    /\ active = [p \in Products |-> TRUE]
    /\ batches = <<>>
    /\ shifts = <<[is_closed |-> FALSE, end_time |-> NoDate]>>
    /\ codes = <<[is_active |-> TRUE, type |-> "staff"]>>
    /\ loyalty = <<>>
    /\ sales = <<>>
    /\ items = <<>>
    /\ logs = <<>>
    /\ losses = <<>>
    /\ last = NoCall
    /\ proc = [p \in Procs |-> Rest("idle", "")]

\* the same request without the quantity check
CreateBatchUnchecked(p, q, e) ==
    /\ Idle
    /\ Len(batches) < MaxBatches
    /\ active[p]
    /\ e = NoDate \/ e >= today
    /\ batches' = Append(batches, [product |-> p, quantity |-> q, expiry_date |-> e,
                                   is_expired_handled |-> FALSE])
    /\ UNCHANGED <<today, nullsLargest, active, shifts, codes, loyalty, sales, items,
                   logs, losses, last, proc>>

\* ProductBatchViewSet.create: a new batch of an active product, quantity >= 0,
\* expiry date absent or not in the past
CreateBatch(p, q, e) ==
    /\ Idle
    /\ Len(batches) < MaxBatches
    /\ active[p]
    /\ q >= 0
    /\ e = NoDate \/ e >= today
    /\ batches' = Append(batches, [product |-> p, quantity |-> q, expiry_date |-> e,
                                   is_expired_handled |-> FALSE])
    /\ UNCHANGED <<today, nullsLargest, active, shifts, codes, loyalty, sales, items,
                   logs, losses, last, proc>>

\* a day passes
Tick ==
    /\ Idle
    /\ today < MaxDay
    /\ today' = today + 1
    /\ UNCHANGED <<nullsLargest, active, batches, shifts, codes, loyalty, sales, items,
                   logs, losses, last, proc>>

\* SalesTransactionViewSet.create: serializer.save() runs create on the request
CreateSale(req, fault) ==
    /\ Idle
    /\ Len(sales) < MaxTx
    /\ \E r \in {create(DB, shifts, active, req, nullsLargest, today, fault)} :
           /\ batches' = r.db.batches
           /\ codes' = r.db.codes
           /\ loyalty' = r.db.loyalty
           /\ sales' = r.db.sales
           /\ items' = r.db.items
           /\ logs' = r.db.logs
           /\ last' = [op |-> "create_sale", req |-> req, outcome |-> r.outcome,
                       pre |-> DB, sale_items |-> r.sale_items,
                       warnings |-> r.warnings, transaction_id |-> r.transaction_id,
                       change_due |-> r.change_due,
                       loyalty_discount_code |-> r.loyalty_discount_code,
                       printed |-> r.printed]
    /\ UNCHANGED <<today, nullsLargest, active, shifts, losses, proc>>

\* SalesTransactionViewSet.create: the response (or the error) goes back to the
\* caller
Respond ==
    /\ ~Idle
    /\ last' = NoCall
    /\ UNCHANGED <<today, nullsLargest, active, batches, shifts, codes, loyalty,
                   sales, items, logs, losses, proc>>

Next ==
    \/ \E b \in BatchInputs : CreateBatch(b.product, b.quantity, b.expiry_date)
    \/ Tick
    \/ \E req \in IF sales = <<>> THEN Requests ELSE FollowUps, fault \in Faults :
          CreateSale(req, fault)
    \/ Respond

Spec == Init /\ [][Next]_vars

\* ---- create_sale on concurrent workers -----------------------------------------
\* Each request runs create in a transaction of its own (db_transaction.atomic)
\* on a database that isolates statements at READ COMMITTED with row locks taken
\* by UPDATE: create asks for nothing stronger (no select_for_update, no
\* isolation option).  A worker reads committed rows and its own writes; its
\* writes become visible to the others when it commits.  The statements of one
\* cart line run as two steps, the queryset evaluation and the saves; the tail
\* of create runs as two steps, the read of the customer's loyalty row and the
\* rest, which runs at the commit.

\* whole units of product 1, one or two lines
ConcCarts ==
    {<<[product |-> 1, quantity |-> QScale]>>,
     <<[product |-> 1, quantity |-> 2 * QScale]>>,
     <<[product |-> 1, quantity |-> QScale], [product |-> 1, quantity |-> QScale]>>}
ConcRequests == {Request(c, r, NoCode, NoPhone, "card") : c \in ConcCarts, r \in BOOLEAN}
ConcFaults == {"none", "receipt"}

\* the batch rows worker p reads: the committed rows, and its own saved objects
View(p) ==
    [b \in DOMAIN batches |->
        IF b \in proc[p].writes THEN proc[p].ctx.batches[b] ELSE batches[b]]

\* the batch rows locked by the uncommitted UPDATEs of the other workers
LockedByOthers(p) == UNION {proc[o].writes : o \in Procs \ {p}}

\* the batches the saves of cart line n went to
Touched(ctx, n) ==
    {ctx.sale_items[i].batch_id : i \in {j \in DOMAIN ctx.sale_items : ctx.sale_items[j].line = n}}

\* the rows a worker inserted, carrying the id of its transaction row
Stamp(rows, tx) == [i \in DOMAIN rows |-> [rows[i] EXCEPT !.transaction = tx]]

\* shift check, atomic block entered, discount code looked up, transaction row
\* inserted
BeginSale(p, req) ==
    /\ proc[p].pc = "idle"
    /\ proc' = [proc EXCEPT ![p] =
          IF ~HasOpenShift(shifts) THEN Rest("done", "ShiftRequired")
          ELSE IF req.discount_code # NoCode /\ ~CodeValid(codes, req.discount_code)
          THEN Rest("done", "InvalidDiscount")
          ELSE [pc |-> "lines", req |-> req, n |-> 1,
                ctx |-> [NewCtx(DB, req.discount_code # NoCode) EXCEPT
                           !.items = <<>>, !.logs = <<>>],
                writes |-> {}, seen |-> <<>>, outcome |-> ""]]
    /\ last' = IF Idle THEN [op |-> "concurrent", pre |-> DB] ELSE last
    /\ UNCHANGED <<today, nullsLargest, active, batches, shifts, codes, loyalty,
                   sales, items, logs, losses>>

\* the next cart line: product looked up, the batch queryset evaluated
ReadLine(p) ==
    /\ proc[p].pc = "lines"
    /\ proc[p].n <= Len(proc[p].req.items)
    /\ proc' = [proc EXCEPT ![p] =
          IF ~active[proc[p].req.items[proc[p].n].product]
          THEN Rest("done", "ProductNotFound")
          ELSE [@ EXCEPT !.pc = "alloc", !.ctx.batches = View(p)]]
    /\ UNCHANGED <<today, nullsLargest, active, batches, shifts, codes, loyalty,
                   sales, items, logs, losses, last>>

\* the batch loop of the line over the objects read: SalesItem and SaleLog rows
\* inserted, batch.save() for each batch touched; an UPDATE waits while the row
\* is locked by another worker; an exception rolls the worker's writes back
WriteLine(p) ==
    /\ proc[p].pc = "alloc"
    /\ \E r \in {IF proc[p].req.is_refund
                  THEN RefundLine(proc[p].ctx, proc[p].req.items[proc[p].n], proc[p].n, 0,
                                  nullsLargest, today)
                  ELSE SaleLine(proc[p].ctx, proc[p].req.items[proc[p].n], proc[p].n, 0,
                                nullsLargest, today)} :
          /\ r.err = "" => Touched(r, proc[p].n) \cap LockedByOthers(p) = {}
          /\ proc' = [proc EXCEPT ![p] =
                IF r.err # "" THEN Rest("done", r.err)
                ELSE [@ EXCEPT !.pc = "lines", !.n = @ + 1, !.ctx = r,
                               !.writes = @ \cup Touched(r, proc[p].n)]]
    /\ UNCHANGED <<today, nullsLargest, active, batches, shifts, codes, loyalty,
                   sales, items, logs, losses, last>>

\* TRUE when the call of worker p reaches the loyalty step
Loyal(p) == ~proc[p].req.is_refund /\ proc[p].req.phone_number # NoPhone

\* the workers whose get_or_create inserted the row of phone number ph and have
\* not committed yet
Inserting(ph) ==
    {o \in Procs : /\ proc[o].pc = "tail"
                   /\ Loyal(o)
                   /\ proc[o].req.phone_number = ph
                   /\ ph \notin DOMAIN proc[o].seen}

\* CustomerLoyalty.objects.get_or_create(phone_number=phone): the committed row
\* is read; where there is none the worker inserts one, after waiting for the
\* worker that is inserting the same phone number (unique constraint)
ReadLoyalty(p) ==
    /\ proc[p].pc = "lines"
    /\ proc[p].n > Len(proc[p].req.items)
    /\ (Loyal(p) /\ proc[p].req.phone_number \notin DOMAIN loyalty)
          => Inserting(proc[p].req.phone_number) = {}
    /\ proc' = [proc EXCEPT ![p].pc = "tail", ![p].seen = loyalty]
    /\ UNCHANGED <<today, nullsLargest, active, batches, shifts, codes, loyalty,
                   sales, items, logs, losses, last>>

\* the CustomerLoyalty rows as worker p holds them: its own customer's row as
\* it was read, the others as committed
Stale(p) ==
    LET ph == proc[p].req.phone_number
    IN  [x \in (DOMAIN loyalty \ {ph}) \cup (DOMAIN proc[p].seen \cap {ph}) |->
            IF x = ph THEN proc[p].seen[x] ELSE loyalty[x]]

\* the tail of create after the item loop, and the commit (or the rollback) of
\* the atomic block: the worker's rows and batch values reach the tables
CommitSale(p, fault) ==
    /\ proc[p].pc = "tail"
    /\ LET tx == Len(sales) + 1
           ctx == [proc[p].ctx EXCEPT !.batches = View(p),
                                      !.items = items \o Stamp(@, tx),
                                      !.logs = logs \o Stamp(@, tx)]
           held == [DB EXCEPT !.loyalty = Stale(p)]
       IN  \E r \in {Finalize(DB, Written(OpenSale(held, proc[p].req), ctx), ctx,
                              proc[p].req, tx, fault)} :
              /\ batches' = r.db.batches
              /\ codes' = r.db.codes
              /\ loyalty' = IF r.outcome = "ok" /\ Loyal(p)
                            THEN [x \in DOMAIN loyalty \cup {proc[p].req.phone_number} |->
                                    IF x = proc[p].req.phone_number THEN r.db.loyalty[x]
                                    ELSE loyalty[x]]
                            ELSE loyalty
              /\ sales' = r.db.sales
              /\ items' = r.db.items
              /\ logs' = r.db.logs
              /\ proc' = [proc EXCEPT ![p] = [Rest("done", r.outcome) EXCEPT
                                                !.req = proc[p].req]]
    /\ UNCHANGED <<today, nullsLargest, active, shifts, losses, last>>

NextConc ==
    \/ \E b \in BatchInputs : CreateBatch(b.product, b.quantity, b.expiry_date)
    \/ \E p \in Procs, req \in ConcRequests : BeginSale(p, req)
    \/ \E p \in Procs : ReadLine(p)
    \/ \E p \in Procs : WriteLine(p)
    \/ \E p \in Procs : ReadLoyalty(p)
    \/ \E p \in Procs, fault \in ConcFaults : CommitSale(p, fault)

SpecConc == Init /\ [][NextConc]_vars


\* ---- cash payments --------------------------------------------------------------
\* amounts of cash handed over, in hundredths
CashOffers == {6, 8, CashTendered}

\* one-line carts of product 1 paid in cash or by card, with or without the
\* staff code
CashRequests ==
    {[Request(<<[product |-> 1, quantity |-> q]>>, r, c, NoPhone, m)
        EXCEPT !.amount_received = a] :
        q \in {1, QScale}, r \in BOOLEAN, c \in {NoCode, 1}, m \in {"cash", "card"},
        a \in CashOffers}

NextCash ==
    \/ \E b \in BatchInputs : CreateBatch(b.product, b.quantity, b.expiry_date)
    \/ \E req \in CashRequests : CreateSale(req, "none")
    \/ Respond

SpecCash == Init /\ [][NextCash]_vars

\* ---- concurrent requests carrying the staff discount code ----------------------
CodeConcRequests ==
    {Request(<<[product |-> 1, quantity |-> QScale]>>, r, 1, NoPhone, "card") :
        r \in BOOLEAN}

NextConcCode ==
    \/ \E b \in BatchInputs : CreateBatch(b.product, b.quantity, b.expiry_date)
    \/ \E p \in Procs, req \in CodeConcRequests : BeginSale(p, req)
    \/ \E p \in Procs : ReadLine(p)
    \/ \E p \in Procs : WriteLine(p)
    \/ \E p \in Procs : ReadLoyalty(p)
    \/ \E p \in Procs, fault \in ConcFaults : CommitSale(p, fault)

SpecConcCode == Init /\ [][NextConcCode]_vars

\* ---- loyalty --------------------------------------------------------------------
\* carts of product 1 for a known or an anonymous customer; the two-line cart
\* spends more than twice the spending target
LoyalRequests ==
    {Request(c, r, d, ph, "card") :
        c \in {<<[product |-> 1, quantity |-> q]>> : q \in 1..MaxQty}
              \cup {<<[product |-> 1, quantity |-> MaxQty],
                      [product |-> 1, quantity |-> MaxQty]>>},
        r \in BOOLEAN, d \in {NoCode, 1}, ph \in {NoPhone} \cup Phones}

NextLoyal ==
    \/ \E b \in BatchInputs : CreateBatch(b.product, b.quantity, b.expiry_date)
    \/ \E req \in LoyalRequests, fault \in Faults : CreateSale(req, fault)
    \/ Respond

SpecLoyal == Init /\ [][NextLoyal]_vars

\* ---- concurrent sales to one customer ---------------------------------------------
\* no till has a sale under way
Quiet == \A p \in Procs : proc[p].pc = "idle"

\* one whole unit of a product for a customer who gives a phone number; two
\* tills that sell different products lock different batch rows
LoyalConcRequests ==
    {Request(<<[product |-> pr, quantity |-> QScale]>>, FALSE, NoCode, ph, "card") :
        pr \in Products, ph \in Phones}

\* an earlier sale to the customer, rung up before the two tills start
FirstSale ==
    /\ Quiet
    /\ \E req \in LoyalConcRequests : CreateSale(req, "none")

FirstResponse ==
    /\ Quiet
    /\ last.op # "concurrent"
    /\ Respond

NextConcLoyal ==
    \/ \E b \in BatchInputs : CreateBatch(b.product, b.quantity, b.expiry_date)
    \/ FirstSale
    \/ FirstResponse
    \/ \E p \in Procs, req \in LoyalConcRequests : BeginSale(p, req)
    \/ \E p \in Procs : ReadLine(p)
    \/ \E p \in Procs : WriteLine(p)
    \/ \E p \in Procs : ReadLoyalty(p)
    \/ \E p \in Procs : CommitSale(p, "none")

SpecConcLoyal == Init /\ [][NextConcLoyal]_vars

\* ---- the cashier's shifts ----------------------------------------------------------
\* CashierShiftAdmin, add form: a new shift of the cashier, is_closed = False
StartShift ==
    /\ Idle
    /\ Len(shifts) < MaxShifts
    /\ shifts' = Append(shifts, [is_closed |-> FALSE, end_time |-> NoDate])
    /\ UNCHANGED <<today, nullsLargest, active, batches, codes, loyalty, sales, items,
                   logs, losses, last, proc>>

\* CashierShiftAdmin.end_shift_and_download_csv with shift i alone selected: a
\* closed shift gets the warning, an open one gets end_time = now() and
\* is_closed = True; the admin request may arrive while workers serve sales
end_shift_and_download_csv(i) ==
    /\ Idle \/ last.op = "concurrent"
    /\ i \in DOMAIN shifts
    /\ shifts' = IF shifts[i].is_closed THEN shifts
                 ELSE [shifts EXCEPT ![i] = [is_closed |-> TRUE, end_time |-> today]]
    /\ last' = IF Idle THEN [op |-> "end_shift", shift |-> i, before |-> shifts]
                ELSE last
    /\ UNCHANGED <<today, nullsLargest, active, batches, codes, loyalty, sales, items,
                   logs, losses, proc>>

\* one unit of product 1, sold or brought back
ShiftRequests ==
    {Request(<<[product |-> 1, quantity |-> QScale]>>, r, NoCode, NoPhone, "card") :
        r \in BOOLEAN}

NextShift ==
    \/ \E b \in BatchInputs : CreateBatch(b.product, b.quantity, b.expiry_date)
    \/ Tick
    \/ StartShift
    \/ \E i \in 1..MaxShifts : end_shift_and_download_csv(i)
    \/ \E req \in ShiftRequests : CreateSale(req, "none")
    \/ Respond

SpecShift == Init /\ [][NextShift]_vars

\* ---- losses ------------------------------------------------------------------------
\* LossLog.clean: TRUE when a loss of q units of batch b validates
LossLogClean(bs, act, b, q, day) ==
    /\ act[bs[b].product]
    /\ ~Expired(bs[b], day)
    /\ q >= 0
    /\ q <= bs[b].quantity

\* LossLogForm.clean, after the form field (a PositiveIntegerField, min_value 0)
\* has accepted q: the quantity is compared only when it is truthy
LossLogFormClean(bs, b, q) ==
    /\ q >= 0
    /\ q # 0 => q <= bs[b].quantity

\* LossLog.save: full_clean, then the batch is decremented, flagged when it
\* reaches 0 and saved (ProductBatch.save validates it), then the row is written
LossLogSave(bs, act, b, q, day) ==
    IF ~LossLogClean(bs, act, b, q, day) THEN [ok |-> FALSE, batches |-> bs]
    ELSE IF q <= bs[b].quantity
    THEN LET left == bs[b].quantity - q
             nb == [bs[b] EXCEPT !.quantity = left,
                                 !.is_expired_handled = IF left = 0 THEN TRUE ELSE @]
         IN  IF BatchClean(nb, day) THEN [ok |-> TRUE, batches |-> [bs EXCEPT ![b] = nb]]
             ELSE [ok |-> FALSE, batches |-> bs]
    ELSE [ok |-> TRUE, batches |-> bs]

\* the admin form of a LossLog row submitted: form validation, then save_model
SubmitLoss(bs, act, b, q, day) ==
    IF LossLogFormClean(bs, b, q) /\ LossLogClean(bs, act, b, q, day)
    THEN LossLogSave(bs, act, b, q, day)
    ELSE [ok |-> FALSE, batches |-> bs]

\* LossLogAdmin, add form: a loss of q units of batch b is recorded
RecordLoss(b, q) ==
    /\ Idle
    /\ b \in DOMAIN batches
    /\ Len(losses) < MaxLosses
    /\ \E r \in {SubmitLoss(batches, active, b, q, today)} :
          /\ batches' = r.batches
          /\ losses' = IF r.ok THEN Append(losses, [batch |-> b, quantity_lost |-> q])
                       ELSE losses
          /\ last' = [op |-> "record_loss", batch |-> b, quantity_lost |-> q,
                      outcome |-> IF r.ok THEN "ok" ELSE "ValidationError",
                      before |-> [batches |-> batches, losses |-> losses]]
    /\ UNCHANGED <<today, nullsLargest, active, shifts, codes, loyalty, sales, items,
                   logs, proc>>

\* LossLogAdmin, change form: loss record l is saved again as it stands
ResaveLoss(l) ==
    /\ Idle
    /\ l \in DOMAIN losses
    /\ \E r \in {SubmitLoss(batches, active, losses[l].batch, losses[l].quantity_lost,
                            today)} :
          /\ batches' = r.batches
          /\ last' = [op |-> "resave_loss", batch |-> losses[l].batch,
                      quantity_lost |-> losses[l].quantity_lost,
                      outcome |-> IF r.ok THEN "ok" ELSE "ValidationError",
                      before |-> [batches |-> batches, losses |-> losses]]
    /\ UNCHANGED <<today, nullsLargest, active, shifts, codes, loyalty, sales, items,
                   logs, losses, proc>>

\* ProductViewSet.perform_destroy: the product is soft-deleted
Deactivate(p) ==
    /\ Idle
    /\ active[p]
    /\ active' = [active EXCEPT ![p] = FALSE]
    /\ UNCHANGED <<today, nullsLargest, batches, shifts, codes, loyalty, sales, items,
                   logs, losses, last, proc>>

\* the batches asked for, a negative quantity and an empty batch among them
LossBatchInputs ==
    [product : {1}, quantity : (-1)..MaxBatchQty, expiry_date : {NoDate, 1}]

\* the quantities the loss form is given
LossQuantities == (-1)..(MaxBatchQty + 1)

\* one unit of product 1, sold or brought back
LossRequests ==
    {Request(<<[product |-> 1, quantity |-> QScale]>>, r, NoCode, NoPhone, "card") :
        r \in BOOLEAN}

NextStock ==
    \/ \E b \in LossBatchInputs : CreateBatch(b.product, b.quantity, b.expiry_date)
    \/ Tick
    \/ \E p \in {1} : Deactivate(p)
    \/ \E req \in LossRequests : CreateSale(req, "none")
    \/ \E b \in 1..MaxBatches, q \in LossQuantities : RecordLoss(b, q)
    \/ \E l \in 1..MaxLosses : ResaveLoss(l)
    \/ Respond

SpecStock == Init /\ [][NextStock]_vars

\* ---- products that are missing or soft-deleted -------------------------------------
\* a product id that is no row of Product
NoSuchProduct == 3

\* carts of one or two lines of one unit each, over the products and the
\* missing one
ProductRequests ==
    {Request(c, r, NoCode, NoPhone, "card") :
        c \in UNION {[1..n -> [product : Products \cup {NoSuchProduct},
                               quantity : {QScale}]] : n \in 1..MaxLines},
        r \in BOOLEAN}

NextProduct ==
    \/ \E b \in BatchInputs : CreateBatch(b.product, b.quantity, b.expiry_date)
    \/ \E p \in Products : Deactivate(p)
    \/ \E req \in ProductRequests : CreateSale(req, "none")
    \/ Respond

SpecProduct == Init /\ [][NextProduct]_vars

\* ---- stock received, sold, brought back and lost -----------------------------------
\* every batch is received with the same quantity
Received == [product : {1}, quantity : {MaxBatchQty}, expiry_date : {NoDate}]

\* one-line carts of product 1, half a unit or a whole one, sold or brought back
ConserveRequests ==
    {Request(<<[product |-> 1, quantity |-> q]>>, r, NoCode, NoPhone, "card") :
        q \in {1, QScale}, r \in BOOLEAN}

NextConserve ==
    \/ \E b \in Received : CreateBatch(b.product, b.quantity, b.expiry_date)
    \/ \E req \in ConserveRequests, fault \in Faults : CreateSale(req, fault)
    \/ \E b \in 1..MaxBatches, q \in LossQuantities : RecordLoss(b, q)
    \/ Respond

SpecConserve == Init /\ [][NextConserve]_vars

\* ---- a shift closed while a sale is in flight --------------------------------------
NextConcShift ==
    \/ \E b \in BatchInputs : CreateBatch(b.product, b.quantity, b.expiry_date)
    \/ StartShift
    \/ \E i \in 1..MaxShifts : end_shift_and_download_csv(i)
    \/ \E p \in Procs, req \in ShiftRequests : BeginSale(p, req)
    \/ \E p \in Procs : ReadLine(p)
    \/ \E p \in Procs : WriteLine(p)
    \/ \E p \in Procs : ReadLoyalty(p)
    \/ \E p \in Procs : CommitSale(p, "none")

SpecConcShift == Init /\ [][NextConcShift]_vars

\* ---- the last call, as the claims read it -------------------------------------
Called == last.op = "create_sale"
Succeeded == Called /\ last.outcome = "ok"
IsSale == Called /\ ~last.req.is_refund
IsRefund == Called /\ last.req.is_refund
\* the call got past the open-shift check, the discount-code lookup and the
\* product lookups
WellFormed ==
    /\ Called
    /\ HasOpenShift(shifts)
    /\ last.req.discount_code # NoCode => CodeValid(last.pre.codes, last.req.discount_code)
    /\ \A n \in DOMAIN last.req.items : active[last.req.items[n].product]

\* neither the receipt generator nor the reward minting failed in the call
NoFault == Called /\ last.outcome \notin {"ReceiptFailed", "LoyaltyFailed"}

RECURSIVE QtySum(_)
QtySum(s) == IF s = <<>> THEN 0 ELSE Head(s).quantity + QtySum(Tail(s))
RECURSIVE AmountSum(_)
AmountSum(s) ==
    IF s = <<>> THEN 0 ELSE Head(s).unit_price * Head(s).quantity + AmountSum(Tail(s))

\* quantity the cart asks of product p, over all its lines
Requested(cart, p) == QtySum(SelectSeq(cart, LAMBDA l : l.product = p))
\* the response entries of cart line n / on batch b
OfLine(n) == SelectSeq(last.sale_items, LAMBDA e : e.line = n)
OnBatch(b) == SelectSeq(last.sale_items, LAMBDA e : e.batch_id = b)
\* the SalesItem rows of transaction tx
ItemsOf(tx) == SelectSeq(items, LAMBDA e : e.transaction = tx)

\* C1: a sale whose cart asks more of some product than its batches hold fails
\* with the insufficient-stock error, and every batch keeps the quantity it had
\* before the request.
C1_ShortfallFailsInsufficientStock ==
    (/\ WellFormed
     /\ IsSale
     /\ \E p \in Products :
           Requested(last.req.items, p) > OnHand(last.pre.batches, p) * QScale)
    => /\ last.outcome = "InsufficientStock"
       /\ batches = last.pre.batches

\* C2: a create_sale that ends in an error leaves every table as it was before
\* the call: no SalesTransaction, SalesItem or SaleLog row added, no batch
\* changed, the supplied discount code still active, the loyalty rows unchanged.
C2_FailureLeavesRowsUnchanged ==
    (Called /\ last.outcome # "ok")
    => /\ DB = last.pre
       /\ last.req.discount_code \in DOMAIN last.pre.codes
            => codes[last.req.discount_code] = last.pre.codes[last.req.discount_code]

\* a call with a valid discount code and a known customer fails at the loyalty
\* step, after batches, rows and the code were written
C2_Witness ==
    /\ Called
    /\ last.outcome = "LoyaltyFailed"
    /\ CodeValid(codes, last.req.discount_code)
    /\ last.req.phone_number \in DOMAIN loyalty
    /\ sales # <<>>

\* C3: when two concurrent sales that allocate from the same batch have both
\* committed, every batch holds its initial quantity minus the quantities of the
\* committed SalesItems on it, and no batch sold more units than it held.
C3_ConcurrentSalesSerialized ==
    (/\ last.op = "concurrent"
     /\ \A p \in Procs : proc[p].pc = "done" /\ proc[p].outcome = "ok"
     /\ \A tx \in DOMAIN sales : ~sales[tx].is_refund
     /\ \E b \in DOMAIN batches :
           \A tx \in DOMAIN sales :
              \E i \in DOMAIN items : items[i].transaction = tx /\ items[i].batch = b)
    => \A b \in DOMAIN batches :
          LET sold == QtySum(SelectSeq(items, LAMBDA e : e.batch = b))
          IN  /\ batches[b].quantity * QScale
                   = last.pre.batches[b].quantity * QScale - sold
              /\ sold <= last.pre.batches[b].quantity * QScale

\* C4: a sale whose first FIFO candidate is an expired, unhandled batch with
\* stock completes: the batch is decremented, the transaction is committed and
\* the response carries a warning for the batch.
C4_ExpiredBatchSaleCompletes ==
    (/\ WellFormed
     /\ NoFault
     /\ IsSale
     /\ last.req.payment_method = "card"
     /\ Len(last.req.items) = 1
     /\ LET line == last.req.items[1]
            order == FifoBatches(last.pre.batches, line.product, nullsLargest)
        IN  /\ order # <<>>
            /\ Expired(last.pre.batches[order[1]], today)
            /\ ~last.pre.batches[order[1]].is_expired_handled
            /\ line.quantity <= OnHand(last.pre.batches, line.product) * QScale)
    => LET b == FifoBatches(last.pre.batches, last.req.items[1].product, nullsLargest)[1]
       IN  /\ last.outcome = "ok"
           /\ batches[b].quantity < last.pre.batches[b].quantity
           /\ Len(sales) = Len(last.pre.sales) + 1
           /\ \E i \in DOMAIN last.warnings : last.warnings[i] = b

\* C5: when the receipt generator fails the sale still stands: the transaction,
\* its items and logs, the batch decrements and the code consumption persist.
C5_ReceiptFailureKeepsSale ==
    (Called /\ last.outcome = "ReceiptFailed")
    => /\ Len(sales) = Len(last.pre.sales) + 1
       /\ Len(items) > Len(last.pre.items)
       /\ Len(logs) > Len(last.pre.logs)
       /\ batches # last.pre.batches
       /\ last.req.discount_code # NoCode => ~codes[last.req.discount_code].is_active

\* C6: for every successful sale, with or without a discount code, the persisted
\* total_amount equals the sum over its SalesItems of unit_price x quantity
\* (rounded to the cent, as every stored amount is).
C6_TotalIsItemSum ==
    (Succeeded /\ IsSale)
    => sales[last.transaction_id].total_amount
         = round_decimal(AmountSum(ItemsOf(last.transaction_id)), QScale)

\* C7: for every successful sale and every cart line, the quantities of the
\* SalesItems created for the line add up to the quantity requested, and each
\* batch is decremented by exactly the quantity recorded in its SalesItems.
C7_DecrementsMatchItems ==
    (Succeeded /\ IsSale)
    => /\ \A n \in DOMAIN last.req.items :
             QtySum(OfLine(n)) = last.req.items[n].quantity
       /\ \A b \in DOMAIN batches :
             (last.pre.batches[b].quantity - batches[b].quantity) * QScale
               = QtySum(OnBatch(b))

\* C8: a sale line visits the product's batches with quantity > 0 in ascending
\* (expiry_date, id) order, batches without expiry date last, and takes
\* min(remaining, batch quantity) from each: a batch is decremented only if
\* every batch earlier in that order was emptied by the line.
C8_FifoNullsLast ==
    (Succeeded /\ IsSale /\ last.req.items # <<>>)
    => LET p == last.req.items[1].product
           pre == last.pre.batches
           touched == {OfLine(1)[i].batch_id : i \in DOMAIN OfLine(1)}
       IN  \A b \in touched :
             \A c \in DOMAIN pre :
                (/\ pre[c].product = p
                 /\ pre[c].quantity > 0
                 /\ OrderKey(pre, c, TRUE) < OrderKey(pre, b, TRUE))
                => /\ c \in touched
                   /\ QtySum(SelectSeq(OfLine(1), LAMBDA e : e.batch_id = c))
                        = pre[c].quantity * QScale

\* C9: a refund of quantity Q on an active product that has a batch succeeds,
\* adds exactly Q to exactly one batch of the product, leaves every other batch
\* unchanged and creates one SalesItem of quantity -Q on that batch.
C9_RefundRestoresOneBatch ==
    (/\ WellFormed
     /\ NoFault
     /\ IsRefund
     /\ Len(last.req.items) = 1
     /\ \E b \in DOMAIN last.pre.batches :
           last.pre.batches[b].product = last.req.items[1].product)
    => /\ last.outcome = "ok"
       /\ \E b \in DOMAIN batches :
             /\ batches[b].product = last.req.items[1].product
             /\ batches[b].quantity * QScale
                  = last.pre.batches[b].quantity * QScale + last.req.items[1].quantity
             /\ \A c \in DOMAIN batches \ {b} : batches[c] = last.pre.batches[c]
             /\ Len(ItemsOf(last.transaction_id)) = 1
             /\ ItemsOf(last.transaction_id)[1].batch = b
             /\ ItemsOf(last.transaction_id)[1].quantity = -last.req.items[1].quantity

\* C10: a successful sale of quantity Q of product P followed by a successful
\* refund of Q of P returns P's on-hand quantity to its value before the sale.
C10_RoundTripRestoresOnHand ==
    \A p \in Products, q \in 1..MaxQty :
       LET cart == <<[product |-> p, quantity |-> q]>>
           sold == create(DB, shifts, active, Request(cart, FALSE, NoCode, NoPhone, "card"),
                          nullsLargest, today, "none")
           back == create(sold.db, shifts, active,
                          Request(cart, TRUE, NoCode, NoPhone, "card"),
                          nullsLargest, today, "none")
       IN  (sold.outcome = "ok" /\ back.outcome = "ok")
           => OnHand(back.db.batches, p) = OnHand(batches, p)

\* the call as it would end had it been paid by card
PaidByCard ==
    create(last.pre, shifts, active, [last.req EXCEPT !.payment_method = "card"],
           nullsLargest, today, "none")
\* the total_amount the transaction of the call is persisted with
FinalTotal == PaidByCard.db.sales[PaidByCard.transaction_id].total_amount

\* C11: a non-refund cash sale succeeds iff amount_received >= the final
\* total_amount, and then change_due = amount_received - total_amount; with
\* amount_received < total_amount it fails with the insufficient-payment error
\* and no batch is changed; card payments and refunds are never rejected for the
\* payment amount.
C11_CashHandling ==
    /\ (Called /\ last.outcome = "InsufficientPayment")
       => IsSale /\ last.req.payment_method = "cash"
    /\ (IsSale /\ last.req.payment_method = "cash" /\ PaidByCard.outcome = "ok")
       => /\ last.outcome = "ok" <=> last.req.amount_received >= FinalTotal
          /\ last.outcome = "ok"
               => /\ last.change_due = last.req.amount_received - FinalTotal
                  /\ sales[last.transaction_id].change_due = last.change_due
          /\ last.req.amount_received < FinalTotal
               => last.outcome = "InsufficientPayment" /\ batches = last.pre.batches

\* the code was an active DiscountCode row before the call / is one now
ActiveBefore(code) == code \in DOMAIN last.pre.codes /\ last.pre.codes[code].is_active
ActiveNow(code) == code \in DOMAIN codes /\ codes[code].is_active

\* C12: a discount code is single-use: a code carried by a committed transaction
\* is inactive; a create_sale carrying a code that is not active fails with the
\* invalid-discount error and changes nothing; a code carried by a call that
\* failed for another reason is still active.
C12_DiscountCodeSingleUse ==
    /\ \A tx \in DOMAIN sales :
          sales[tx].discount_code # NoCode => ~codes[sales[tx].discount_code].is_active
    /\ (Called /\ last.outcome = "ok" /\ last.req.discount_code # NoCode)
       => /\ sales[last.transaction_id].discount_code = last.req.discount_code
          /\ ~codes[last.req.discount_code].is_active
    /\ \A tx \in DOMAIN sales, ty \in DOMAIN sales :
          (tx # ty /\ sales[tx].discount_code # NoCode)
          => sales[tx].discount_code # sales[ty].discount_code
    /\ (Called /\ HasOpenShift(shifts) /\ last.req.discount_code # NoCode
          /\ ~ActiveBefore(last.req.discount_code))
       => last.outcome = "InvalidDiscount" /\ DB = last.pre
    /\ (Called /\ last.outcome # "ok" /\ ActiveBefore(last.req.discount_code))
       => ActiveNow(last.req.discount_code)

\* a second call carries the code of a committed transaction and is refused
C12_Witness ==
    /\ Called
    /\ last.outcome = "InvalidDiscount"
    /\ \E tx \in DOMAIN sales : sales[tx].discount_code = last.req.discount_code

\* C13: under any interleaving of two concurrent requests carrying the same
\* active discount code, the code is the discount_code of at most one committed
\* SalesTransaction.
C13_CodeAppliedOnce ==
    \A c \in DOMAIN codes :
       Cardinality({tx \in DOMAIN sales : sales[tx].discount_code = c}) <= 1

\* the CustomerLoyalty row of the caller's customer before the call (a customer
\* without a row has spent nothing) and after it
LoyaltyBefore ==
    IF last.req.phone_number \in DOMAIN last.pre.loyalty
    THEN last.pre.loyalty[last.req.phone_number]
    ELSE [total_spent |-> 0, rewards_earned |-> 0]
LoyaltyAfter == loyalty[last.req.phone_number]

\* the amount the call charges before it is rounded to the cent, in 1/Fine of a
\* hundredth: the item sum, less 10% when a code was applied
Unrounded ==
    LET sum == AmountSum(ItemsOf(last.transaction_id)) * 10
    IN  IF last.req.discount_code # NoCode THEN sum - sum \div 10 ELSE sum

\* C14 without the rounding: after a committed non-refund sale with a phone number,
\* total_spent has grown by the sale's total to within one cent (the unrounded
\* amount is added and the sum is rounded when stored); with milestone =
\* floor((total_spent before + unrounded amount) / spending_target), if
\* milestone > rewards_earned exactly one loyalty code is minted (also when
\* several multiples are crossed at once), rewards_earned becomes milestone and
\* the code is attached to the transaction; otherwise no code is minted and
\* rewards_earned is unchanged.
C14_LoyaltyRewardToTheCent ==
    (Succeeded /\ IsSale /\ last.req.phone_number # NoPhone)
    => LET total == sales[last.transaction_id].total_amount
           milestone == (LoyaltyBefore.total_spent * Fine + Unrounded)
                          \div (spending_target * Fine)
       IN  /\ LoyaltyAfter.total_spent - (LoyaltyBefore.total_spent + total)
                \in {-1, 0, 1}
           /\ IF milestone > LoyaltyBefore.rewards_earned
              THEN /\ Len(codes) = Len(last.pre.codes) + 1
                   /\ codes[Len(codes)] = [is_active |-> TRUE, type |-> "loyalty"]
                   /\ LoyaltyAfter.rewards_earned = milestone
                   /\ sales[last.transaction_id].loyalty_discount_code = Len(codes)
                   /\ last.loyalty_discount_code = Len(codes)
              ELSE /\ Len(codes) = Len(last.pre.codes)
                   /\ LoyaltyAfter.rewards_earned = LoyaltyBefore.rewards_earned
                   /\ sales[last.transaction_id].loyalty_discount_code = NoCode
                   /\ last.loyalty_discount_code = NoCode

\* a sale that crosses two multiples of the spending target at once and mints
\* one code
C14_Witness ==
    /\ Succeeded /\ IsSale /\ last.req.phone_number # NoPhone
    /\ LoyaltyAfter.rewards_earned >= LoyaltyBefore.rewards_earned + 2
    /\ Len(codes) = Len(last.pre.codes) + 1
    /\ sales[last.transaction_id].loyalty_discount_code = Len(codes)

\* C14: after a committed non-refund sale with a phone number,
\* total_spent has grown by the sale's total; with milestone = floor(total_spent
\* / spending_target), if milestone > rewards_earned exactly one loyalty code is
\* minted, rewards_earned becomes milestone and the code is attached to the
\* transaction; otherwise no code is minted and rewards_earned is unchanged.
C14_LoyaltyReward ==
    (Succeeded /\ IsSale /\ last.req.phone_number # NoPhone)
    => LET total == sales[last.transaction_id].total_amount
           milestone == LoyaltyAfter.total_spent \div spending_target
       IN  /\ LoyaltyAfter.total_spent = LoyaltyBefore.total_spent + total
           /\ IF milestone > LoyaltyBefore.rewards_earned
              THEN /\ Len(codes) = Len(last.pre.codes) + 1
                   /\ codes[Len(codes)] = [is_active |-> TRUE, type |-> "loyalty"]
                   /\ LoyaltyAfter.rewards_earned = milestone
                   /\ sales[last.transaction_id].loyalty_discount_code = Len(codes)
                   /\ last.loyalty_discount_code = Len(codes)
              ELSE /\ Len(codes) = Len(last.pre.codes)
                   /\ LoyaltyAfter.rewards_earned = LoyaltyBefore.rewards_earned
                   /\ sales[last.transaction_id].loyalty_discount_code = NoCode
                   /\ last.loyalty_discount_code = NoCode

\* the transactions committed by the concurrent workers
Concurrent == {tx \in DOMAIN sales : tx > Len(last.pre.sales)}
RECURSIVE TotalOf(_)
TotalOf(S) ==
    IF S = {} THEN 0
    ELSE LET tx == CHOOSE x \in S : TRUE
         IN  sales[tx].total_amount + TotalOf(S \ {tx})

\* C15: when two concurrent sales for the same phone number have both
\* committed, the customer's total_spent is the prior total_spent plus both
\* totals, and the two transactions did not both mint a reward code for the same
\* milestone: the codes minted are no more than the milestones gained.
C15_ConcurrentLoyalty ==
    (/\ last.op = "concurrent"
     /\ \A p \in Procs : proc[p].pc = "done" /\ proc[p].outcome = "ok"
     /\ \E ph \in Phones : \A p \in Procs :
           ~proc[p].req.is_refund /\ proc[p].req.phone_number = ph)
    => LET ph == proc[CHOOSE p \in Procs : TRUE].req.phone_number
           before == IF ph \in DOMAIN last.pre.loyalty THEN last.pre.loyalty[ph]
                     ELSE [total_spent |-> 0, rewards_earned |-> 0]
           minted == {tx \in Concurrent : sales[tx].loyalty_discount_code # NoCode}
       IN  /\ loyalty[ph].total_spent = before.total_spent + TotalOf(Concurrent)
           /\ Cardinality(minted) <= loyalty[ph].rewards_earned - before.rewards_earned

\* C16: a create_sale call made while the cashier has no unclosed CashierShift
\* fails with the shift-required error and changes no row, so once the admin
\* action has closed the only open shift every call fails until a new shift
\* exists; a call made while a shift is open is not refused for the shift; and
\* the admin action leaves every shift that was closed already as it was,
\* neither reopened nor closed again.
C16_ShiftGate ==
    /\ (Called /\ \A i \in DOMAIN shifts : shifts[i].is_closed)
          => last.outcome = "ShiftRequired" /\ DB = last.pre
    /\ (Called /\ \E i \in DOMAIN shifts : ~shifts[i].is_closed)
          => last.outcome # "ShiftRequired"
    /\ last.op = "end_shift"
          => /\ shifts[last.shift].is_closed
             /\ \A j \in DOMAIN last.before :
                   last.before[j].is_closed => shifts[j] = last.before[j]

\* a call refused with stock on the shelf, after the admin action closed every
\* shift of the cashier
C16_Witness ==
    /\ Called
    /\ last.outcome = "ShiftRequired"
    /\ \A i \in DOMAIN shifts : shifts[i].is_closed /\ shifts[i].end_time # NoDate
    /\ \E b \in DOMAIN batches : batches[b].product = 1 /\ batches[b].quantity > 0

\* the last operation recorded or re-saved a loss
Lost == last.op \in {"record_loss", "resave_loss"}

\* C17: a deduction, by a sale or by a loss record, that brings a batch from a
\* positive quantity to 0 sets is_expired_handled on that batch.
C17_EmptiedBatchIsHandled ==
    /\ (Succeeded /\ IsSale) =>
          \A b \in DOMAIN last.pre.batches :
             last.pre.batches[b].quantity > 0 /\ batches[b].quantity = 0
                => batches[b].is_expired_handled
    /\ (Lost /\ last.outcome = "ok") =>
          \A b \in DOMAIN last.before.batches :
             last.before.batches[b].quantity > 0 /\ batches[b].quantity = 0
                => batches[b].is_expired_handled

\* C18: in every reachable state the quantity of every batch is an integer that
\* is not negative.
C18_QuantityNonNegative ==
    \A b \in DOMAIN batches : batches[b].quantity \in Nat

\* a loss of more than the batch holds was submitted for a batch of an active
\* product that has not expired
C18_Witness ==
    /\ last.op = "record_loss"
    /\ last.quantity_lost > last.before.batches[last.batch].quantity
    /\ active[batches[last.batch].product]
    /\ ~Expired(batches[last.batch], today)
    /\ \E b \in DOMAIN batches : batches[b].quantity = 0 /\ batches[b].is_expired_handled

\* C19: recording a loss fails with a validation error and leaves the batch
\* (quantity and flag) and the loss records as they were whenever the quantity
\* lost is not in (0, batch quantity], 0 included, or the product is inactive,
\* or the batch is past its expiry date and not handled.
C19_InvalidLossRejected ==
    (/\ last.op = "record_loss"
     /\ LET b == last.before.batches[last.batch]
        IN  \/ last.quantity_lost <= 0
            \/ last.quantity_lost > b.quantity
            \/ ~active[b.product]
            \/ Expired(b, today) /\ ~b.is_expired_handled)
    => /\ last.outcome = "ValidationError"
       /\ batches = last.before.batches
       /\ losses = last.before.losses

\* C20: a loss record takes exactly quantity_lost off its batch when it is
\* created, and saving a persisted loss record again does not change the batch.
C20_LossDecrementsOnce ==
    /\ (last.op = "record_loss" /\ last.outcome = "ok") =>
          /\ batches[last.batch].quantity =
                last.before.batches[last.batch].quantity - last.quantity_lost
          /\ \A b \in DOMAIN batches \ {last.batch} : batches[b] = last.before.batches[b]
    /\ last.op = "resave_loss" => batches = last.before.batches

\* C21: on a committed sale carrying a valid discount code every SalesItem has
\* the selling price less 10%, rounded half up to the cent, as unit_price, and
\* total_amount is the sum of unit_price x quantity over the items less a
\* further 10% (to the cent); without a code unit_price is the selling price
\* and total_amount is the item sum.
C21_DiscountAppliedTwice ==
    (Succeeded /\ IsSale)
    => LET tx == last.transaction_id
           its == ItemsOf(tx)
           coded == last.req.discount_code # NoCode
       IN  /\ \A i \in DOMAIN its :
                its[i].unit_price =
                   IF coded
                   THEN (2 * 90 * selling_price[its[i].product] + 100) \div 200
                   ELSE selling_price[its[i].product]
           /\ sales[tx].total_amount =
                 IF coded
                 THEN (2 * 9 * AmountSum(its) + 10 * QScale) \div (2 * 10 * QScale)
                 ELSE (2 * AmountSum(its) + QScale) \div (2 * QScale)

\* a sale with a code committed, its unit price below the selling price
C21_Witness ==
    /\ Succeeded
    /\ IsSale
    /\ last.req.discount_code # NoCode
    /\ ItemsOf(last.transaction_id) # <<>>
    /\ sales[last.transaction_id].total_amount > 0

\* batch x precedes batch y in (expiry_date descending, id descending) order;
\* a batch without expiry date is not compared with a dated one
Precedes(bs, x, y) ==
    IF bs[x].expiry_date # NoDate /\ bs[y].expiry_date # NoDate
    THEN \/ bs[x].expiry_date > bs[y].expiry_date
         \/ bs[x].expiry_date = bs[y].expiry_date /\ x > y
    ELSE bs[x].expiry_date = NoDate /\ bs[y].expiry_date = NoDate /\ x > y

\* the batches of product p before the last call
BatchesOf(p) == {b \in DOMAIN last.pre.batches : last.pre.batches[b].product = p}

\* C22: every line of a committed refund has exactly one SalesItem, on the batch
\* that no other batch of the product precedes in (expiry_date descending, id
\* descending) order, whatever the quantities; a refund with a line whose
\* product has no batch fails and persists nothing, with the no-batch error when
\* that line is the first.
C22_RefundTargetsLatestBatch ==
    /\ (Succeeded /\ IsRefund) =>
          \A n \in DOMAIN last.req.items :
             /\ Len(OfLine(n)) = 1
             /\ LET b == OfLine(n)[1].batch_id
                IN  /\ b \in BatchesOf(last.req.items[n].product)
                    /\ \A y \in BatchesOf(last.req.items[n].product) :
                          ~Precedes(last.pre.batches, y, b)
    /\ (WellFormed /\ IsRefund
          /\ \E n \in DOMAIN last.req.items : BatchesOf(last.req.items[n].product) = {})
       => /\ ~Succeeded
          /\ DB = last.pre
          /\ BatchesOf(last.req.items[1].product) = {}
                => last.outcome = "NoBatchAvailable"

\* a refund that went to the later of two batches of the product, an empty one
C22_Witness ==
    /\ Succeeded
    /\ IsRefund
    /\ LET b == OfLine(1)[1].batch_id
       IN  /\ last.pre.batches[b].quantity = 0
           /\ \E y \in BatchesOf(last.req.items[1].product) :
                 Precedes(last.pre.batches, b, y)

\* C23: a refund, a sale without a phone number and an aborted call leave every
\* CustomerLoyalty row as it was and mint no loyalty code.
C23_LoyaltyOnlyOnPhoneSales ==
    (Called /\ (last.req.is_refund \/ last.req.phone_number = NoPhone \/ ~Succeeded))
    => /\ loyalty = last.pre.loyalty
       /\ Len(codes) = Len(last.pre.codes)
       /\ \A c \in DOMAIN codes : codes[c].type = last.pre.codes[c].type
       /\ Succeeded => sales[last.transaction_id].loyalty_discount_code = NoCode

\* a refund with the phone number of a customer who has a loyalty row committed
C23_Witness ==
    /\ Succeeded
    /\ IsRefund
    /\ last.req.phone_number \in DOMAIN last.pre.loyalty
    /\ sales[last.transaction_id].total_amount < 0

\* line n of the last request names a product that is missing or inactive
BadLine(n) ==
    LET p == last.req.items[n].product IN p \notin Products \/ ~active[p]

\* C24: a call with a cart line whose product does not exist or is inactive
\* fails and leaves every batch (and every other row) as it was, with the
\* product-not-found error when that line is the first; so after a product is
\* soft-deleted every sale or refund of it fails and its batches keep their
\* quantities.
C24_ProductNotFound ==
    (Called /\ \E i \in DOMAIN shifts : ~shifts[i].is_closed
            /\ \E n \in DOMAIN last.req.items : BadLine(n))
    => /\ ~Succeeded
       /\ batches = last.pre.batches
       /\ DB = last.pre
       /\ BadLine(1) => last.outcome = "ProductNotFound"

\* a sale or refund of a soft-deleted product that has stock was refused
C24_Witness ==
    /\ Called
    /\ last.outcome = "ProductNotFound"
    /\ Len(last.req.items) = MaxLines
    /\ last.req.items[1].product \in Products
    /\ BadLine(MaxLines)
    /\ last.req.items[MaxLines].product \in Products
    /\ \E b \in DOMAIN batches :
          batches[b].product = last.req.items[MaxLines].product /\ batches[b].quantity > 0

\* the SaleLog rows of transaction tx
LogsOf(tx) == SelectSeq(logs, LAMBDA e : e.transaction = tx)

\* C25: in every committed transaction the SaleLog rows and the SalesItem rows
\* pair off, each pair with the same product, batch and signed quantity; the
\* action is 'sold' exactly when the quantity is positive and 'refund' exactly
\* when it is negative; a line has one pair per batch it touched, and every
\* batch whose quantity the transaction changed has a pair.
C25_AuditTrail ==
    /\ \A tx \in DOMAIN sales :
          LET its == ItemsOf(tx)
              lgs == LogsOf(tx)
          IN  /\ Len(its) = Len(lgs)
              /\ its # <<>>
              /\ \A i \in DOMAIN its :
                    /\ lgs[i].product = its[i].product
                    /\ lgs[i].batch = its[i].batch
                    /\ lgs[i].quantity = its[i].quantity
                    /\ lgs[i].action \in {"sold", "refund"}
                    /\ lgs[i].action = "sold" <=> lgs[i].quantity > 0
                    /\ lgs[i].action = "refund" <=> lgs[i].quantity < 0
                    /\ lgs[i].action = "refund" <=> sales[tx].is_refund
    /\ \A i \in DOMAIN items : items[i].transaction \in DOMAIN sales
    /\ \A i \in DOMAIN logs : logs[i].transaction \in DOMAIN sales
    /\ Succeeded =>
          /\ Len(ItemsOf(last.transaction_id)) = Len(last.sale_items)
          /\ \A n \in DOMAIN last.req.items :
                \A i, j \in DOMAIN OfLine(n) :
                   OfLine(n)[i].batch_id = OfLine(n)[j].batch_id => i = j
          /\ \A b \in DOMAIN batches :
                batches[b] # last.pre.batches[b] => OnBatch(b) # <<>>

\* a committed refund, after a committed sale that drew on two batches
C25_Witness ==
    /\ Succeeded
    /\ IsRefund
    /\ \E tx \in DOMAIN sales :
          /\ ~sales[tx].is_refund
          /\ Len(ItemsOf(tx)) = 2
          /\ ItemsOf(tx)[1].batch # ItemsOf(tx)[2].batch

\* C26: when the receipt generator is called the transaction is final: the
\* totals are saved, the discount code used is inactive, the loyalty spend is
\* recorded and a newly minted loyalty code is attached to the transaction.
C26_ReceiptAfterFinalization ==
    (Succeeded /\ last.printed.invoked)
    => LET tx == last.transaction_id
           seen == last.printed
       IN  /\ seen.sale.total_amount = sales[tx].total_amount
           /\ seen.sale.total_profit = sales[tx].total_profit
           /\ seen.sale.discount_code = sales[tx].discount_code
           /\ seen.sale.discount_code # NoCode
                 => ~seen.codes[seen.sale.discount_code].is_active
           /\ seen.loyalty = loyalty
           /\ seen.sale.loyalty_discount_code = sales[tx].loyalty_discount_code

\* the SalesItem quantities on batch b, signed, in 1/QScale units
SoldFrom(b) == QtySum(SelectSeq(items, LAMBDA e : e.batch = b))
\* the quantity_lost of the loss records on batch b
RECURSIVE LostSum(_)
LostSum(s) == IF s = <<>> THEN 0 ELSE Head(s).quantity_lost + LostSum(Tail(s))
LostFrom(b) == LostSum(SelectSeq(losses, LAMBDA e : e.batch = b))

\* C27: for every batch, the quantity it was received with (MaxBatchQty for
\* every batch of SpecConserve) is its current quantity plus the signed
\* quantities of the SalesItems on it plus the quantity_lost of the loss records
\* on it.
C27_StockConservation ==
    \A b \in DOMAIN batches :
       MaxBatchQty * QScale
          = batches[b].quantity * QScale + SoldFrom(b) + LostFrom(b) * QScale

\* the transactions that carry a newly minted loyalty code
Rewarded == {tx \in DOMAIN sales : sales[tx].loyalty_discount_code # NoCode}
RECURSIVE RewardsEarned(_)
RewardsEarned(S) ==
    IF S = {} THEN 0
    ELSE LET ph == CHOOSE x \in S : TRUE
         IN  loyalty[ph].rewards_earned + RewardsEarned(S \ {ph})

\* C28: with the spending target fixed, for every customer rewards_earned is at
\* most floor(total_spent / spending_target); no call lowers a customer's
\* total_spent or rewards_earned or removes a customer; and the loyalty codes
\* minted for the customers' transactions are no more than the rewards earned.
C28_LoyaltyInvariant ==
    /\ \A ph \in DOMAIN loyalty :
          /\ loyalty[ph].total_spent >= 0
          /\ loyalty[ph].rewards_earned >= 0
          /\ loyalty[ph].rewards_earned <= loyalty[ph].total_spent \div spending_target
    /\ Called =>
          \A ph \in DOMAIN last.pre.loyalty :
             /\ ph \in DOMAIN loyalty
             /\ loyalty[ph].total_spent >= last.pre.loyalty[ph].total_spent
             /\ loyalty[ph].rewards_earned >= last.pre.loyalty[ph].rewards_earned
    /\ Cardinality(Rewarded) <= RewardsEarned(DOMAIN loyalty)
    /\ \A tx \in Rewarded :
          /\ sales[tx].loyalty_discount_code \in DOMAIN codes
          /\ codes[sales[tx].loyalty_discount_code].type = "loyalty"
          /\ \A ty \in Rewarded :
                sales[tx].loyalty_discount_code = sales[ty].loyalty_discount_code => tx = ty

\* C29: a SalesTransaction row is committed only while the cashier has an
\* unclosed shift, whatever the interleaving of create_sale with the
\* shift-closing action.
C29_CommitUnderOpenShift ==
    [][Len(sales') > Len(sales) => \E i \in DOMAIN shifts : ~shifts[i].is_closed]_vars

\* C30: a committed refund has every item at the full selling price; submitted
\* with a valid discount code it marks the code inactive and its total_amount is
\* the negative item sum with the magnitude reduced by 10% (to the cent);
\* without a code its total_amount is the negative item sum.
C30_RefundWithCode ==
    (Succeeded /\ IsRefund)
    => LET tx == last.transaction_id
           its == ItemsOf(tx)
           owed == -AmountSum(its)
           code == last.req.discount_code
       IN  /\ \A i \in DOMAIN its :
                /\ its[i].unit_price = selling_price[its[i].product]
                /\ its[i].quantity < 0
           /\ owed > 0
           /\ sales[tx].discount_code = code
           /\ code # NoCode =>
                 /\ last.pre.codes[code].is_active
                 /\ ~codes[code].is_active
                 /\ sales[tx].total_amount
                       = -((2 * 9 * owed + 10 * QScale) \div (2 * 10 * QScale))
           /\ code = NoCode =>
                 /\ codes = last.pre.codes
                 /\ sales[tx].total_amount = -((2 * owed + QScale) \div (2 * QScale))

\* a refund with a code committed, for less than the price of its items
C30_Witness ==
    /\ Succeeded
    /\ IsRefund
    /\ last.req.discount_code # NoCode
    /\ -sales[last.transaction_id].total_amount * QScale
          < -AmountSum(ItemsOf(last.transaction_id))

====
